---------------------------- MODULE Spec2Model ----------------------------
(***************************************************************************)
(* Minimum cut by edge contraction: the three contraction strategies of    *)
(* the repository (minCutRandomised, minCutFixedPermutation and            *)
(* deterministic_degree_biased_karger), the union-find they share, the      *)
(* multigraph store and the bridge oracle, as one state machine.  One run  *)
(* of the machine is one call of one strategy on one input (n, edges).     *)
(***************************************************************************)
EXTENDS Integers, Sequences, FiniteSets, TLC

VARIABLES
    strategy,     \* which entry point is being run: "random", "fixed", "degree"
    n,            \* vertex count argument
    edges,        \* edge list argument, a sequence of pairs <<u, v>>
    pc,           \* position in the call: "start", "loop", "done"
    parent,       \* union-find parent array (random, fixed)
    rank,         \* union-find rank array (random, fixed)
    supernodes,   \* the live counter: supernodes / vertices / num_active
    sortedEdges,  \* fixed: the sorted copy of the edge list
    idx,          \* fixed: 1-based position of the range-for in sortedEdges
    adj,          \* degree: Graph, adj[u] is a map neighbour -> multiplicity
    active,       \* degree: active flags
    rng,          \* random: position of the generator in its cycle
    contractions, \* history: number of successful contractions so far
    group,        \* history (degree): group[x] is the vertex x was merged into
    result        \* the returned value, once pc = "done"

vars == <<strategy, n, edges, pc, parent, rank, supernodes, sortedEdges, idx,
          adj, active, rng, contractions, group, result>>

(***************************************************************************)
(* Bounds of the model.                                                    *)
(***************************************************************************)
\* general inputs: n + Len(edges) <= MaxSize
MaxSize == 7
\* inputs of the runs checked under fairness: n + Len(edges) <= MaxFairSize
MaxFairSize == 6
\* the generator's cycle, abstracted to RngPeriod positions
RngPeriod == 2
\* multigraph inputs: vertex count and largest multiplicity of a pair
MaxMultiN == 4
MaxMult == 2

Strategies == {"random", "fixed", "degree"}
None == -1

Vertices(k) == 0 .. (k - 1)

Min2(a, b) == IF a < b THEN a ELSE b
Max2(a, b) == IF a < b THEN b ELSE a

(***************************************************************************)
(* Only(S) is the element of a one-element set.  Only({F(v) : v \in {e}}) *)
(* is F(e) with e evaluated once and its value named v, the way a C++      *)
(* local variable holds the result of a call.                              *)
(***************************************************************************)
Only(S) == CHOOSE r \in S : TRUE

(***************************************************************************)
(* Union-find (karger.hpp as included by the strategies).                  *)
(***************************************************************************)
\* a findParent that cuts x off its parent instead of halving the path
findParentDetaches(par, x) ==
    IF par[x] = x \/ par[par[x]] = par[x]
    THEN [parent |-> par, root |-> par[x]]
    ELSE [parent |-> [par EXCEPT ![x] = x], root |-> x]

\* findParent with path halving; returns the root and the updated array
RECURSIVE findParent(_, _)
findParent(par, x) ==
    IF par[x] = x
    THEN [parent |-> par, root |-> x]
    ELSE Only({findParent(p1, p1[x]) : p1 \in {[par EXCEPT ![x] = par[par[x]]]}})

\* findParent with full path compression, the recursive version
RECURSIVE findParentRecursive(_, _)
findParentRecursive(par, x) ==
    IF par[x] = x
    THEN [parent |-> par, root |-> x]
    ELSE Only({[parent |-> [r.parent EXCEPT ![x] = r.root], root |-> r.root] :
                   r \in {findParentRecursive(par, par[x])}})

\* a unionSets without the index rule: on equal rank the root of the second
\* argument goes under the root of the first
unionSetsEarlier(par, rnk, a0, b0) ==
    Only({Only({IF fa.root = fb.root
                THEN [parent |-> fb.parent, rank |-> rnk, merged |-> FALSE]
                ELSE LET swap == rnk[fa.root] < rnk[fb.root]
                         a == IF swap THEN fb.root ELSE fa.root
                         b == IF swap THEN fa.root ELSE fb.root
                     IN  [parent |-> [fb.parent EXCEPT ![b] = a],
                          rank   |-> IF rnk[a] = rnk[b]
                                     THEN [rnk EXCEPT ![a] = @ + 1] ELSE rnk,
                          merged |-> TRUE] :
                    fb \in {findParentRecursive(fa.parent, b0)}}) :
              fa \in {findParentRecursive(par, a0)}})

\* unionSets after its two findParent calls: a and b are the roots found
LinkRoots(p, rnk, ra, rb) ==
    IF ra = rb
    THEN [parent |-> p, rank |-> rnk, merged |-> FALSE]
    ELSE LET swap == rnk[ra] < rnk[rb] \/ (rnk[ra] = rnk[rb] /\ ra > rb)
             a  == IF swap THEN rb ELSE ra
             b  == IF swap THEN ra ELSE rb
         IN  [parent |-> [p EXCEPT ![b] = a],
              rank   |-> IF rnk[a] = rnk[b] THEN [rnk EXCEPT ![a] = @ + 1] ELSE rnk,
              merged |-> TRUE]

\* the roots of a and of b, found in this order, and the array afterwards
FindBoth(par, a, b) ==
    Only({Only({[parent |-> fb.parent, a |-> fa.root, b |-> fb.root] :
                    fb \in {findParent(fa.parent, b)}}) :
              fa \in {findParent(par, a)}})

unionSets(par, rnk, a0, b0) ==
    Only({LinkRoots(f.parent, rnk, f.a, f.b) : f \in {FindBoth(par, a0, b0)}})

\* a contraction step that reports a merge even when both endpoints already
\* have the same root
ContractStepCountsNoOp(par, rnk, e) ==
    Only({[parent |-> r.parent, rank |-> r.rank, merged |-> TRUE] :
              r \in {unionSets(par, rnk, e[1], e[2])}})

\* one attempted contraction of edge e, as both edge-list strategies do it:
\* find both endpoints, union when the roots differ
ContractStep(par, rnk, e) ==
    Only({IF f.a = f.b
          THEN [parent |-> f.parent, rank |-> rnk, merged |-> FALSE]
          ELSE unionSets(f.parent, rnk, f.a, f.b) :
              f \in {FindBoth(par, e[1], e[2])}})

(***************************************************************************)
(* Cut extraction of the edge-list strategies.                             *)
(***************************************************************************)
\* random: the scan for repA and repB, "for i: r = findParent(i) ..."
RECURSIVE RepScan(_, _, _, _)
RepScan(par, i, k, repA) ==
    IF i >= k
    THEN [parent |-> par, repA |-> repA, repB |-> None]
    ELSE Only({IF repA = None
               THEN RepScan(f.parent, i + 1, k, f.root)
               ELSE IF f.root # repA
                    THEN [parent |-> f.parent, repA |-> repA, repB |-> f.root]
                    ELSE RepScan(f.parent, i + 1, k, repA) :
                   f \in {findParent(par, i)}})

\* a push without the std::find test: the list gets every root, repeated
PushAlways(found, r) == Append(found, r)

\* the list found, with the root r pushed when it is not in it yet
PushIfNew(found, r) ==
    IF \E j \in 1 .. Len(found) : found[j] = r THEN found ELSE Append(found, r)

\* fixed: the list of distinct roots in order of first appearance
RECURSIVE SupernodeScan(_, _, _, _)
SupernodeScan(par, i, k, found) ==
    IF i >= k
    THEN [parent |-> par, supernodes |-> found]
    ELSE Only({SupernodeScan(f.parent, i + 1, k, f.found) :
                   f \in {Only({[parent |-> g.parent,
                                 found  |-> PushIfNew(found, g.root)] :
                                    g \in {findParent(par, i)}})}})

\* a crossing test that recognises one orientation only
CrossesOneWay(a, b, A, B) == a = A /\ b = B

\* a crossing test that also counts edges lying inside one of the supernodes
CrossesInside(a, b, A, B) == a \in {A, B} /\ b \in {A, B}

\* whether the edge with roots a, b is counted for the pair (A, B)
Crosses(a, b, A, B) == (a = A /\ b = B) \/ (a = B /\ b = A)

\* both: cutSize, the number of edges of es (from position j on) whose roots
\* are the two given supernodes, added to the count so far
RECURSIVE CountCrossing(_, _, _, _, _, _)
CountCrossing(par, es, j, A, B, cutSize) ==
    IF j > Len(es)
    THEN [parent |-> par, cutSize |-> cutSize]
    ELSE Only({CountCrossing(f.parent, es, j + 1, A, B, f.cutSize) :
                   f \in {Only({[parent  |-> g.parent,
                                 cutSize |-> IF Crosses(g.a, g.b, A, B)
                                             THEN cutSize + 1 ELSE cutSize] :
                                    g \in {FindBoth(par, es[j][1], es[j][2])}})}})

\* random: everything after the contraction loop
RandomisedExtract(par, k, es) ==
    Only({IF scan.repB = None
          THEN [parent |-> scan.parent, cut |-> 0]
          ELSE Only({[parent |-> c.parent, cut |-> c.cutSize] :
                         c \in {CountCrossing(scan.parent, es, 1,
                                              scan.repA, scan.repB, 0)}}) :
              scan \in {RepScan(par, 0, k, None)}})

\* fixed: steps 4 and 5
FixedExtract(par, k, es) ==
    Only({IF Len(scan.supernodes) < 2
          THEN [parent |-> scan.parent, cut |-> 0]
          ELSE Only({[parent |-> c.parent, cut |-> c.cutSize] :
                         c \in {CountCrossing(scan.parent, es, 1,
                                              scan.supernodes[1],
                                              scan.supernodes[2], 0)}}) :
              scan \in {SupernodeScan(par, 0, k, <<>>)}})

(***************************************************************************)
(* The fixed permutation: std::sort by (min(u,v), max(u,v)).  The sort is  *)
(* not stable, so edges with equal key may come out in any relative order. *)
(***************************************************************************)
\* a comparator on the endpoints as stored, without min and max
EdgeLessAsStored(a, b) == IF a[1] = b[1] THEN a[2] < b[2] ELSE a[1] < b[1]

\* the comparator of the sort: a strictly before b
EdgeLess(a, b) ==
    LET au == Min2(a[1], a[2])
        av == Max2(a[1], a[2])
        bu == Min2(b[1], b[2])
        bv == Max2(b[1], b[2])
    IN  IF au = bu THEN av < bv ELSE au < bu

\* the positions of S that may come first in a sorted order, one for each
\* distinct edge value
Firsts(es, S) ==
    {i \in S : /\ \A j \in S : ~EdgeLess(es[j], es[i])
               /\ \A j \in S : (es[j] = es[i]) => i <= j}

\* the sorted orders of the edges at the positions S of es
RECURSIVE SortedFrom(_, _)
SortedFrom(es, S) ==
    IF S = {}
    THEN {<<>>}
    ELSE UNION {UNION {{<<es[i]>> \o t : t \in SortedFrom(es, rest)} :
                           rest \in {S \ {i}}} :
                    i \in Firsts(es, S)}

SortedOrders(es) == SortedFrom(es, 1 .. Len(es))

(***************************************************************************)
(* Multigraph store (degree-biased strategy): unordered_map<int,int> per   *)
(* vertex, modelled as a function whose domain is the set of stored keys.  *)
(***************************************************************************)
EmptyMap == [x \in {} |-> 0]

\* m[k] += d, operator[] inserting the key with value 0 first when absent
MapAdd(m, k, d) ==
    [x \in (DOMAIN m) \cup {k} |-> IF x = k
                                    THEN (IF k \in DOMAIN m THEN m[k] ELSE 0) + d
                                    ELSE m[x]]

\* m.erase(k)
MapErase(m, k) == [x \in (DOMAIN m) \ {k} |-> m[x]]

\* the elements of a set of integers in ascending order
RECURSIVE KeysAscending(_)
KeysAscending(S) ==
    IF S = {}
    THEN <<>>
    ELSE Only({Only({<<k>> \o KeysAscending(rest) : rest \in {S \ {k}}}) :
                   k \in {CHOOSE x \in S : \A y \in S : x <= y}})

RECURSIVE SumOver(_, _)
SumOver(m, S) ==
    IF S = {}
    THEN 0
    ELSE Only({Only({m[k] + SumOver(m, rest) : rest \in {S \ {k}}}) :
                   k \in {CHOOSE x \in S : TRUE}})

compute_degree(g, u) == SumOver(g[u], DOMAIN g[u])

\* a loop body that redirects v's edge to w on u's side only
MergeNeighbourOneSided(g, u, v, w) ==
    IF w = u
    THEN g
    ELSE [g EXCEPT ![u] = MapAdd(@, w, g[v][w]),
                   ![w] = MapErase(@, v)]

\* a loop body under which parallel edges collapse: u's and w's entries are
\* set to v's multiplicity instead of growing by it
MergeNeighbourCollapses(g, u, v, w) ==
    IF w = u
    THEN g
    ELSE [g EXCEPT ![u] = [x \in (DOMAIN @) \cup {w} |->
                              IF x = w THEN g[v][w] ELSE @[x]],
                   ![w] = MapErase([x \in (DOMAIN @) \cup {u} |->
                                       IF x = u THEN g[v][w] ELSE @[x]], v)]

\* the body of contract_edge's loop for one neighbour w of v
MergeNeighbour(g, u, v, w) ==
    IF w = u
    THEN g
    ELSE [g EXCEPT ![u] = MapAdd(@, w, g[v][w]),
                   ![w] = MapErase(MapAdd(@, u, g[v][w]), v)]

RECURSIVE MergeAll(_, _, _, _, _)
MergeAll(g, u, v, order, j) ==
    IF j > Len(order)
    THEN g
    ELSE Only({MergeAll(g1, u, v, order, j + 1) :
                   g1 \in {MergeNeighbour(g, u, v, order[j])}})

\* the orders in which the elements of S can be enumerated: an unordered_map
\* is iterated in an order the library chooses
RECURSIVE Orders(_)
Orders(S) ==
    IF S = {}
    THEN {<<>>}
    ELSE UNION {UNION {{<<x>> \o t : t \in Orders(rest)} : rest \in {S \ {x}}} :
                    x \in S}

\* contract_edge when its loop visits the neighbours of v in the given order
ContractIn(g, act, u, v, order) ==
    Only({[adj    |-> [g1 EXCEPT ![v] = EmptyMap,
                                 ![u] = MapErase(MapErase(@, v), u)],
           active |-> [act EXCEPT ![v] = FALSE]] :
              g1 \in {MergeAll(g, u, v, order, 1)}})

\* contract_edge(adj, active, u, v): merge v into u (neighbours ascending)
contract_edge(g, act, u, v) ==
    ContractIn(g, act, u, v, KeysAscending(DOMAIN g[v]))

\* what contract_edge can leave behind, over every iteration order of adj[v]
ContractOutcomes(g, act, u, v) ==
    {ContractIn(g, act, u, v, order) : order \in Orders(DOMAIN g[v])}

(***************************************************************************)
(* Bridge oracle.                                                          *)
(***************************************************************************)
\* a neighbour scan that does not leave out the pair (u, v) itself
StepsUsingDirectEdge(g, act, u, v, curr) == {nb \in DOMAIN g[curr] : act[nb]}

\* the neighbours the traversal may step to from curr
Steps(g, act, u, v, curr) ==
    {nb \in DOMAIN g[curr] :
        /\ act[nb]
        /\ ~(curr = u /\ nb = v)
        /\ ~(curr = v /\ nb = u)}

\* breadth-first layers from the frontier; FALSE as soon as v is visited
RECURSIVE Traverse(_, _, _, _, _, _)
Traverse(g, act, u, v, visited, frontier) ==
    IF frontier = {}
    THEN TRUE
    ELSE \A fresh \in {(UNION {Steps(g, act, u, v, c) : c \in frontier}) \ visited} :
             IF v \in fresh
             THEN FALSE
             ELSE \A seen \in {visited \cup fresh} :
                      Traverse(g, act, u, v, seen, fresh)

is_cut_edge(g, u, v, act) == Traverse(g, act, u, v, {u}, {u})

\* the traversal with its queue, the neighbours of each popped vertex visited
\* in every possible order: the set of values is_cut_edge can return
RECURSIVE BfsOutcomes(_, _, _, _, _, _)
RECURSIVE ScanOutcomes(_, _, _, _, _, _, _)
ScanOutcomes(g, act, u, v, S, q, visited) ==
    IF S = {}
    THEN BfsOutcomes(g, act, u, v, q, visited)
    ELSE UNION {IF nb \in visited
                THEN ScanOutcomes(g, act, u, v, S \ {nb}, q, visited)
                ELSE IF nb = v
                     THEN {FALSE}
                     ELSE UNION {ScanOutcomes(g, act, u, v, S \ {nb}, q1, seen) :
                                     q1 \in {Append(q, nb)},
                                     seen \in {visited \cup {nb}}} :
                    nb \in S}

BfsOutcomes(g, act, u, v, q, visited) ==
    IF q = <<>>
    THEN {TRUE}
    ELSE UNION {ScanOutcomes(g, act, u, v, S, Tail(q), visited) :
                    S \in {Steps(g, act, u, v, Head(q))}}

CutEdgeOutcomes(g, u, v, act) == BfsOutcomes(g, act, u, v, <<u>>, {u})

(***************************************************************************)
(* Degree-biased selection and the adjacency build.                        *)
(***************************************************************************)
\* the score without the bridge penalty: the plain degree product
ScoreNoBridge(g, act, u, v) == compute_degree(g, u) * compute_degree(g, v)

\* a score under which a bridge of multiplicity 1 is contracted first: it
\* gets a score above every degree product instead of the lowest one
ScoreBridgeFirst(g, act, u, v) ==
    IF g[u][v] = 1 /\ is_cut_edge(g, u, v, act)
    THEN 1 + compute_degree(g, u) * compute_degree(g, v)
           + SumOver([x \in DOMAIN g |-> compute_degree(g, x) * compute_degree(g, x)],
                     DOMAIN g)
    ELSE compute_degree(g, u) * compute_degree(g, v)

\* the score of the candidate pair (u, v), with the bridge penalty
Score(g, act, u, v) ==
    IF g[u][v] = 1 /\ is_cut_edge(g, u, v, act)
    THEN 1
    ELSE compute_degree(g, u) * compute_degree(g, v)

\* a comparison without the tie-break on (u, v)
BetterNoTieBreak(score, u, v, best) == score > best.score

\* "score > best_score || (score == best_score && (u,v) < (best_u,best_v))"
Better(score, u, v, best) ==
    \/ score > best.score
    \/ /\ score = best.score
       /\ (u < best.u \/ (u = best.u /\ v < best.v))

\* a candidate filter with the comparison the other way round: only v < u
CandidatesDescending(g, act, k) ==
    {uv \in Vertices(k) \X Vertices(k) :
        /\ act[uv[1]]
        /\ uv[2] \in DOMAIN g[uv[1]]
        /\ uv[2] < uv[1]
        /\ act[uv[2]]}

\* the candidates of one selection pass, as (u, v) with u < v, both active
Candidates(g, act, k) ==
    {uv \in Vertices(k) \X Vertices(k) :
        /\ act[uv[1]]
        /\ uv[2] \in DOMAIN g[uv[1]]
        /\ uv[2] > uv[1]
        /\ act[uv[2]]}

\* the candidate of C that comes first in the order of the two nested loops
FirstPair(C) ==
    CHOOSE c \in C : \A d \in C : c[1] < d[1] \/ (c[1] = d[1] /\ c[2] <= d[2])

\* best after the candidate uv has been looked at
Consider(g, act, uv, best) ==
    Only({IF Better(sc, uv[1], uv[2], best)
          THEN [score |-> sc, u |-> uv[1], v |-> uv[2]]
          ELSE best :
              sc \in {Score(g, act, uv[1], uv[2])}})

RECURSIVE SelectFrom(_, _, _, _)
SelectFrom(g, act, C, best) ==
    IF C = {}
    THEN best
    ELSE Only({Only({SelectFrom(g, act, C \ {uv}, nb) :
                         nb \in {Consider(g, act, uv, best)}}) :
                   uv \in {FirstPair(C)}})

\* one pass of the selection loop: best_u, best_v, best_score
SelectBest(g, act, k) ==
    Only({SelectFrom(g, act, C, [score |-> -1, u |-> None, v |-> None]) :
              C \in {Candidates(g, act, k)}})

\* the inner selection loop for u, its candidates S visited in every order
RECURSIVE InnerOutcomes(_, _, _, _, _)
InnerOutcomes(g, act, u, S, best) ==
    IF S = {}
    THEN {best}
    ELSE UNION {UNION {InnerOutcomes(g, act, u, rest, nb) :
                           rest \in {S \ {v}},
                           nb \in {Consider(g, act, <<u, v>>, best)}} :
                    v \in S}

\* the outer selection loop from u on, started with any of the values bests
RECURSIVE OuterOutcomes(_, _, _, _, _)
OuterOutcomes(g, act, k, u, bests) ==
    IF u >= k
    THEN bests
    ELSE UNION {OuterOutcomes(g, act, k, u + 1, nbs) :
                    nbs \in {UNION {InnerOutcomes(g, act, u,
                                                  {c[2] : c \in {d \in C : d[1] = u}},
                                                  b) :
                                        b \in bests, C \in {Candidates(g, act, k)}}}}

\* what one selection pass can end with, over every iteration order of the
\* adjacency maps
SelectOutcomes(g, act, k) ==
    OuterOutcomes(g, act, k, 0, {[score |-> -1, u |-> None, v |-> None]})

\* a build step that records the edge at its first endpoint only
AddEdgeOneWay(g, e) ==
    IF e[1] # e[2] THEN [g EXCEPT ![e[1]] = MapAdd(@, e[2], 1)] ELSE g

\* "if (u != v) { adj[u][v]++; adj[v][u]++; }" for the edge e
AddEdge(g, e) ==
    IF e[1] # e[2]
    THEN [[g EXCEPT ![e[1]] = MapAdd(@, e[2], 1)] EXCEPT ![e[2]] = MapAdd(@, e[1], 1)]
    ELSE g

\* the adjacency build over the edges from position j on
RECURSIVE BuildAdj(_, _, _)
BuildAdj(g, es, j) ==
    IF j > Len(es)
    THEN g
    ELSE Only({BuildAdj(g1, es, j + 1) : g1 \in {AddEdge(g, es[j])}})

\* the active vertices in ascending order: remaining
Remaining(act, k) == KeysAscending({i \in Vertices(k) : act[i]})

\* the cut value read off the adjacency of the first two remaining vertices
DegreeExtract(g, act, k, numActive) ==
    IF numActive < 2
    THEN 0
    ELSE Only({IF rem[2] \in DOMAIN g[rem[1]] THEN g[rem[1]][rem[2]] ELSE 0 :
                   rem \in {Remaining(act, k)}})

(***************************************************************************)
(* Inputs.                                                                 *)
(***************************************************************************)
Pairs(k) == Vertices(k) \X Vertices(k)

\* edge lists of length at most len over the vertices 0 .. k-1
EdgeLists(k, len) == UNION {[1 .. l -> Pairs(k)] : l \in 0 .. len}

Identity(k) == [i \in Vertices(k) |-> i]

\* the state at the call, before the first statement of the strategy
Entry(s, k, es) ==
    /\ strategy = s
    /\ n = k
    /\ edges = es
    /\ pc = "start"
    /\ parent = <<>>
    /\ rank = <<>>
    /\ supernodes = 0
    /\ sortedEdges = <<>>
    /\ idx = 0
    /\ adj = <<>>
    /\ active = <<>>
    /\ rng = 0
    /\ contractions = 0
    /\ group = <<>>
    /\ result = None

Init ==
    \E s \in Strategies, k \in 1 .. MaxSize :
        \E es \in EdgeLists(k, MaxSize - k) : Entry(s, k, es)

(***************************************************************************)
(* minCutRandomised                                                        *)
(***************************************************************************)
RandomisedStart ==
    /\ pc = "start"
    /\ strategy = "random"
    /\ IF n <= 1 \/ edges = <<>>
       THEN /\ pc' = "done"
            /\ result' = 0
            /\ UNCHANGED <<parent, rank, supernodes>>
       ELSE /\ parent' = Identity(n)
            /\ rank' = [i \in Vertices(n) |-> 0]
            /\ supernodes' = n
            /\ pc' = "loop"
            /\ UNCHANGED result
    /\ UNCHANGED <<strategy, n, edges, sortedEdges, idx, adj, active, rng,
                   contractions, group>>

\* one iteration of the contraction loop, the generator having picked index i
RandomisedDraw(i) ==
    /\ pc = "loop"
    /\ strategy = "random"
    /\ supernodes > 2
    /\ i \in 1 .. Len(edges)
    /\ \E step \in {ContractStep(parent, rank, edges[i])} :
           /\ parent' = step.parent
           /\ rank' = step.rank
           /\ supernodes' = IF step.merged THEN supernodes - 1 ELSE supernodes
           /\ contractions' = IF step.merged THEN contractions + 1 ELSE contractions
    /\ rng' = (rng + 1) % RngPeriod
    /\ UNCHANGED <<strategy, n, edges, pc, sortedEdges, idx, adj, active, group,
                   result>>

RandomisedFinish ==
    /\ pc = "loop"
    /\ strategy = "random"
    /\ ~(supernodes > 2)
    /\ \E ex \in {RandomisedExtract(parent, n, edges)} :
           /\ parent' = ex.parent
           /\ result' = ex.cut
    /\ pc' = "done"
    /\ UNCHANGED <<strategy, n, edges, rank, supernodes, sortedEdges, idx, adj,
                   active, rng, contractions, group>>

(***************************************************************************)
(* minCutFixedPermutation                                                  *)
(***************************************************************************)
\* the entry of the fixed-order strategy without its two early returns
FixedStartUnguarded ==
    /\ pc = "start"
    /\ strategy = "fixed"
    /\ parent' = Identity(n)
    /\ rank' = [i \in Vertices(n) |-> 0]
    /\ sortedEdges' \in SortedOrders(edges)
    /\ idx' = 1
    /\ supernodes' = n
    /\ pc' = "loop"
    /\ UNCHANGED <<strategy, n, edges, adj, active, rng, contractions, group,
                   result>>

FixedStart ==
    /\ pc = "start"
    /\ strategy = "fixed"
    /\ IF n <= 1 \/ edges = <<>>
       THEN /\ pc' = "done"
            /\ result' = 0
            /\ UNCHANGED <<parent, rank, supernodes, sortedEdges, idx>>
       ELSE /\ parent' = Identity(n)
            /\ rank' = [i \in Vertices(n) |-> 0]
            /\ sortedEdges' \in SortedOrders(edges)
            /\ idx' = 1
            /\ supernodes' = n
            /\ pc' = "loop"
            /\ UNCHANGED result
    /\ UNCHANGED <<strategy, n, edges, adj, active, rng, contractions, group>>

\* whether the range-for over sortedEdges runs another iteration's body
FixedContinues(i, sorted, vertices) == i <= Len(sorted) /\ ~(vertices <= 2)

FixedStep ==
    /\ pc = "loop"
    /\ strategy = "fixed"
    /\ FixedContinues(idx, sortedEdges, supernodes)
    /\ \E step \in {ContractStep(parent, rank, sortedEdges[idx])} :
           /\ parent' = step.parent
           /\ rank' = step.rank
           /\ supernodes' = IF step.merged THEN supernodes - 1 ELSE supernodes
           /\ contractions' = IF step.merged THEN contractions + 1 ELSE contractions
    /\ idx' = idx + 1
    /\ UNCHANGED <<strategy, n, edges, pc, sortedEdges, adj, active, rng, group,
                   result>>

FixedFinish ==
    /\ pc = "loop"
    /\ strategy = "fixed"
    /\ ~FixedContinues(idx, sortedEdges, supernodes)
    /\ \E ex \in {FixedExtract(parent, n, edges)} :
           /\ parent' = ex.parent
           /\ result' = ex.cut
    /\ pc' = "done"
    /\ UNCHANGED <<strategy, n, edges, rank, supernodes, sortedEdges, idx, adj,
                   active, rng, contractions, group>>

(***************************************************************************)
(* deterministic_degree_biased_karger (the bridge-protecting variant)      *)
(***************************************************************************)
DegreeStart ==
    /\ pc = "start"
    /\ strategy = "degree"
    /\ IF n <= 1
       THEN /\ pc' = "done"
            /\ result' = 0
            /\ UNCHANGED <<adj, active, supernodes, group>>
       ELSE /\ adj' = BuildAdj([i \in Vertices(n) |-> EmptyMap], edges, 1)
            /\ active' = [i \in Vertices(n) |-> TRUE]
            /\ supernodes' = n
            /\ group' = Identity(n)
            /\ pc' = "loop"
            /\ UNCHANGED result
    /\ UNCHANGED <<strategy, n, edges, parent, rank, sortedEdges, idx, rng,
                   contractions>>

\* whether the while loop contracts once more: num_active > 2 and a pair found
DegreeContinues(g, act, k, numActive) ==
    numActive > 2 /\ SelectBest(g, act, k).u # None

DegreeContract ==
    /\ pc = "loop"
    /\ strategy = "degree"
    /\ supernodes > 2
    /\ \E best \in SelectOutcomes(adj, active, n) :
           /\ best.u # None
           /\ \E c \in ContractOutcomes(adj, active, best.u, best.v) :
                  /\ adj' = c.adj
                  /\ active' = c.active
           /\ group' = [x \in Vertices(n) |->
                           IF group[x] = best.v THEN best.u ELSE group[x]]
    /\ supernodes' = supernodes - 1
    /\ contractions' = contractions + 1
    /\ UNCHANGED <<strategy, n, edges, pc, parent, rank, sortedEdges, idx, rng,
                   result>>

DegreeFinish ==
    /\ pc = "loop"
    /\ strategy = "degree"
    /\ \/ ~(supernodes > 2)
       \/ \E best \in SelectOutcomes(adj, active, n) : best.u = None
    /\ result' = DegreeExtract(adj, active, n, supernodes)
    /\ pc' = "done"
    /\ UNCHANGED <<strategy, n, edges, parent, rank, supernodes, sortedEdges, idx,
                   adj, active, rng, contractions, group>>

Next ==
    \/ RandomisedStart
    \/ \E i \in 1 .. Len(edges) : RandomisedDraw(i)
    \/ RandomisedFinish
    \/ FixedStart
    \/ FixedStep
    \/ FixedFinish
    \/ DegreeStart
    \/ DegreeContract
    \/ DegreeFinish

Spec == Init /\ [][Next]_vars

(***************************************************************************)
(* The graphs of the test programs.                                        *)
(***************************************************************************)
\* the table of run_tests: name, n, edges, expected
run_tests ==
  <<
    [name |-> "Two triangles with bridge", n |-> 6, expected |-> 1,
     edges |-> <<<<0, 1>>, <<1, 2>>, <<2, 0>>, <<3, 4>>, <<4, 5>>, <<5, 3>>, <<2, 3>>>>],
    [name |-> "Square with diagonal", n |-> 4, expected |-> 2,
     edges |-> <<<<0, 1>>, <<1, 2>>, <<2, 3>>, <<3, 0>>, <<0, 2>>>>],
    [name |-> "Triangle", n |-> 3, expected |-> 2,
     edges |-> <<<<0, 1>>, <<1, 2>>, <<0, 2>>>>],
    [name |-> "Parallel edges (multiplicity 3)", n |-> 2, expected |-> 3,
     edges |-> <<<<0, 1>>, <<0, 1>>, <<0, 1>>>>],
    [name |-> "Disconnected graph", n |-> 3, expected |-> 0,
     edges |-> <<>>],
    [name |-> "Barbell - single bridge", n |-> 6, expected |-> 1,
     edges |-> <<<<0, 1>>, <<1, 2>>, <<2, 0>>, <<3, 4>>, <<4, 5>>, <<5, 3>>, <<2, 3>>>>],
    [name |-> "Barbell - double bridge", n |-> 6, expected |-> 2,
     edges |-> <<<<0, 1>>, <<1, 2>>, <<2, 0>>, <<3, 4>>, <<4, 5>>, <<5, 3>>, <<2, 3>>, <<2, 3>>>>],
    [name |-> "Lollipop - K3 + path", n |-> 5, expected |-> 1,
     edges |-> <<<<0, 1>>, <<1, 2>>, <<2, 0>>, <<2, 3>>, <<3, 4>>>>],
    [name |-> "Graph with isolated vertices", n |-> 5, expected |-> 0,
     edges |-> <<<<0, 1>>, <<1, 2>>, <<2, 0>>>>],
    [name |-> "C4 with one diagonal", n |-> 4, expected |-> 2,
     edges |-> <<<<0, 1>>, <<1, 2>>, <<2, 3>>, <<3, 0>>, <<1, 3>>>>],
    [name |-> "C5 with one chord", n |-> 5, expected |-> 2,
     edges |-> <<<<0, 1>>, <<1, 2>>, <<2, 3>>, <<3, 4>>, <<4, 0>>, <<0, 2>>>>],
    [name |-> "C6 with symmetric chords", n |-> 6, expected |-> 2,
     edges |-> <<<<0, 1>>, <<1, 2>>, <<2, 3>>, <<3, 4>>, <<4, 5>>, <<5, 0>>, <<0, 3>>, <<1, 4>>>>],
    [name |-> "Complete K4", n |-> 4, expected |-> 3,
     edges |-> <<<<0, 1>>, <<0, 2>>, <<0, 3>>, <<1, 2>>, <<1, 3>>, <<2, 3>>>>],
    [name |-> "Complete K5", n |-> 5, expected |-> 4,
     edges |-> <<<<0, 1>>, <<0, 2>>, <<0, 3>>, <<0, 4>>, <<1, 2>>, <<1, 3>>, <<1, 4>>, <<2, 3>>, <<2, 4>>, <<3, 4>>>>],
    [name |-> "Triangle with asymmetric multiplicities", n |-> 3, expected |-> 2,
     edges |-> <<<<0, 1>>, <<0, 1>>, <<0, 1>>, <<1, 2>>, <<2, 0>>>>],
    [name |-> "Dual-path bottleneck", n |-> 8, expected |-> 2,
     edges |-> <<<<0, 1>>, <<1, 0>>, <<2, 3>>, <<3, 2>>, <<0, 4>>, <<4, 5>>, <<5, 2>>, <<1, 6>>, <<6, 7>>, <<7, 3>>>>],
    [name |-> "K4 with pendant via 2 edges", n |-> 5, expected |-> 2,
     edges |-> <<<<0, 1>>, <<0, 2>>, <<0, 3>>, <<1, 2>>, <<1, 3>>, <<2, 3>>, <<3, 4>>, <<3, 4>>>>],
    [name |-> "Weighted star graph", n |-> 5, expected |-> 1,
     edges |-> <<<<0, 1>>, <<0, 1>>, <<0, 2>>, <<0, 2>>, <<0, 2>>, <<0, 3>>, <<0, 4>>>>],
    [name |-> "K5 minus one edge", n |-> 5, expected |-> 3,
     edges |-> <<<<0, 1>>, <<0, 2>>, <<0, 3>>, <<0, 4>>, <<1, 2>>, <<1, 3>>, <<1, 4>>, <<2, 3>>, <<2, 4>>>>],
    [name |-> "Bowtie (two triangles, shared vertex)", n |-> 5, expected |-> 2,
     edges |-> <<<<0, 1>>, <<1, 2>>, <<2, 0>>, <<2, 3>>, <<3, 4>>, <<4, 2>>>>]
  >>

\* domCTests, "two triangles + single bridge"
TwoTrianglesBridge ==
    [n |-> 6,
     edges |-> <<<<0, 1>>, <<1, 2>>, <<0, 2>>, <<3, 4>>, <<4, 5>>, <<3, 5>>, <<2, 3>>>>]

\* every strategy on every graph of the tables
InitTests ==
    \E s \in Strategies :
        \/ \E t \in 1 .. Len(run_tests) : Entry(s, run_tests[t].n, run_tests[t].edges)
        \/ Entry(s, TwoTrianglesBridge.n, TwoTrianglesBridge.edges)

SpecTests == InitTests /\ [][Next]_vars

(***************************************************************************)
(* Inputs naming vertices outside 0 .. n-1.  No strategy validates its     *)
(* edges: an endpoint outside the range is used as an index into parent or *)
(* adj, which is undefined behaviour.  The state pc = "undefined" stands   *)
(* for the call having made such an access: from there the build may       *)
(* crash, return any value or overwrite unrelated memory.                  *)
(***************************************************************************)
MaxBadN == 3
MaxBadLen == 2

InRange(k, e) == e[1] \in Vertices(k) /\ e[2] \in Vertices(k)

AllInRange(k, es) == \A j \in 1 .. Len(es) : InRange(k, es[j])

\* the step taken by an out-of-range access
Undefined ==
    /\ pc' = "undefined"
    /\ UNCHANGED <<strategy, n, edges, parent, rank, supernodes, sortedEdges,
                   idx, adj, active, rng, contractions, group, result>>

\* random: findParent(parent, e.u) or findParent(parent, e.v) on the drawn edge
RandomisedDrawOutOfRange(i) ==
    /\ pc = "loop"
    /\ strategy = "random"
    /\ supernodes > 2
    /\ i \in 1 .. Len(edges)
    /\ ~InRange(n, edges[i])
    /\ Undefined

\* random: the counting loop calls findParent on both endpoints of every edge
RandomisedCountOutOfRange ==
    /\ pc = "loop"
    /\ strategy = "random"
    /\ ~(supernodes > 2)
    /\ RepScan(parent, 0, n, None).repB # None
    /\ ~AllInRange(n, edges)
    /\ Undefined

\* fixed: findParent on the endpoints of the next sorted edge
FixedStepOutOfRange ==
    /\ pc = "loop"
    /\ strategy = "fixed"
    /\ FixedContinues(idx, sortedEdges, supernodes)
    /\ ~InRange(n, sortedEdges[idx])
    /\ Undefined

\* fixed: the counting loop of step 5
FixedCountOutOfRange ==
    /\ pc = "loop"
    /\ strategy = "fixed"
    /\ ~FixedContinues(idx, sortedEdges, supernodes)
    /\ Len(SupernodeScan(parent, 0, n, <<>>).supernodes) >= 2
    /\ ~AllInRange(n, edges)
    /\ Undefined

\* degree: the edges the adjacency build indexes adj with (self-loops are
\* skipped before any indexing)
BuildInRange(k, es) ==
    \A j \in 1 .. Len(es) : es[j][1] = es[j][2] \/ InRange(k, es[j])

\* degree: adj[u][v]++ or adj[v][u]++ with u or v outside the vector
DegreeBuildOutOfRange ==
    /\ pc = "start"
    /\ strategy = "degree"
    /\ ~(n <= 1)
    /\ ~BuildInRange(n, edges)
    /\ Undefined

\* edge lists whose endpoints range over -1 .. k, one id below and one above
\* the declared range
AnyEdgeLists(k, len) ==
    UNION {[1 .. l -> (-1 .. k) \X (-1 .. k)] : l \in 0 .. len}

InitInvalid ==
    \E s \in Strategies, k \in 1 .. MaxBadN :
        \E es \in AnyEdgeLists(k, MaxBadLen) : Entry(s, k, es)

\* every step of Next is taken only when it indexes in range
NextInvalid ==
    \/ RandomisedStart
    \/ \E i \in 1 .. Len(edges) : InRange(n, edges[i]) /\ RandomisedDraw(i)
    \/ \E i \in 1 .. Len(edges) : RandomisedDrawOutOfRange(i)
    \/ AllInRange(n, edges) /\ RandomisedFinish
    \/ RandomisedCountOutOfRange
    \/ FixedStart
    \/ (pc = "loop" /\ strategy = "fixed"
           /\ FixedContinues(idx, sortedEdges, supernodes)
           /\ InRange(n, sortedEdges[idx])
           /\ FixedStep)
    \/ FixedStepOutOfRange
    \/ AllInRange(n, edges) /\ FixedFinish
    \/ FixedCountOutOfRange
    \/ (n <= 1 \/ BuildInRange(n, edges)) /\ DegreeStart
    \/ DegreeBuildOutOfRange
    \/ DegreeContract
    \/ DegreeFinish

SpecInvalid == InitInvalid /\ [][NextInvalid]_vars

(***************************************************************************)
(* The union-find on its own: any sequence of findParent and unionSets     *)
(* calls on parent[i] = i, rank[i] = 0, with both versions of findParent  *)
(* that the repository holds.                                              *)
(***************************************************************************)
MaxUnionFind == 8

InitUnionFind ==
    \E k \in 1 .. MaxUnionFind :
        /\ strategy = "unionfind"
        /\ n = k
        /\ edges = <<>>
        /\ pc = "calls"
        /\ parent = Identity(k)
        /\ rank = [i \in Vertices(k) |-> 0]
        /\ supernodes = k
        /\ sortedEdges = <<>>
        /\ idx = 0
        /\ adj = <<>>
        /\ active = <<>>
        /\ rng = 0
        /\ contractions = 0
        /\ group = <<>>
        /\ result = None

\* a call findParent(parent, x), its return value dropped
FindCall(x) ==
    /\ pc = "calls"
    /\ parent' = findParent(parent, x).parent
    /\ UNCHANGED <<strategy, n, edges, pc, rank, supernodes, sortedEdges, idx,
                   adj, active, rng, contractions, group, result>>

FindRecursiveCall(x) ==
    /\ pc = "calls"
    /\ parent' = findParentRecursive(parent, x).parent
    /\ UNCHANGED <<strategy, n, edges, pc, rank, supernodes, sortedEdges, idx,
                   adj, active, rng, contractions, group, result>>

\* a call unionSets(parent, rank, a, b); supernodes counts the groups: it
\* starts at n and
\* drops by one with every call that returned true
UnionCall(a, b) ==
    /\ pc = "calls"
    /\ \E r \in {unionSets(parent, rank, a, b)} :
           /\ parent' = r.parent
           /\ rank' = r.rank
           /\ supernodes' = IF r.merged THEN supernodes - 1 ELSE supernodes
    /\ UNCHANGED <<strategy, n, edges, pc, sortedEdges, idx, adj, active, rng,
                   contractions, group, result>>

NextUnionFind ==
    \/ \E x \in Vertices(n) : FindCall(x)
    \/ \E x \in Vertices(n) : FindRecursiveCall(x)
    \/ \E a, b \in Vertices(n) : UnionCall(a, b)

SpecUnionFind == InitUnionFind /\ [][NextUnionFind]_vars

(***************************************************************************)
(* Multigraph inputs: every multiplicity 0 .. MaxMult on every pair u < v  *)
(* of MaxMultiN vertices, written out as an edge list in ascending order.  *)
(***************************************************************************)
Copies(e, m) == [j \in 1 .. m |-> e]

RECURSIVE Expand(_, _)
Expand(mult, P) ==
    IF P = {}
    THEN <<>>
    ELSE LET e == CHOOSE c \in P :
                      \A d \in P : c[1] < d[1] \/ (c[1] = d[1] /\ c[2] <= d[2])
         IN  Copies(e, mult[e]) \o Expand(mult, P \ {e})

UpperPairs(k) == {uv \in Pairs(k) : uv[1] < uv[2]}

InitMulti ==
    \E s \in Strategies, k \in 2 .. MaxMultiN :
        \E mult \in [UpperPairs(k) -> 0 .. MaxMult] :
            Entry(s, k, Expand(mult, UpperPairs(k)))

SpecMulti == InitMulti /\ [][Next]_vars

(***************************************************************************)
(* Fairness: the call is single-threaded and never suspended, so a step    *)
(* that stays possible is taken; and the generator draws every edge index  *)
(* again and again.                                                        *)
(***************************************************************************)
InitFair ==
    \E s \in Strategies, k \in 1 .. MaxFairSize :
        \E es \in EdgeLists(k, MaxFairSize - k) : Entry(s, k, es)

FairSpec ==
    /\ InitFair
    /\ [][Next]_vars
    /\ WF_vars(RandomisedStart)
    /\ \A i \in 1 .. MaxFairSize : WF_vars(RandomisedDraw(i))
    /\ WF_vars(RandomisedFinish)
    /\ WF_vars(FixedStart)
    /\ WF_vars(FixedStep)
    /\ WF_vars(FixedFinish)
    /\ WF_vars(DegreeStart)
    /\ WF_vars(DegreeContract)
    /\ WF_vars(DegreeFinish)

(***************************************************************************)
(* The strategies as functions of their input: the value a whole call      *)
(* returns, computed with the operators above.                             *)
(***************************************************************************)
RECURSIVE FixedLoop(_, _, _, _, _)
FixedLoop(par, rnk, vertices, sorted, i) ==
    IF FixedContinues(i, sorted, vertices)
    THEN Only({FixedLoop(step.parent, step.rank,
                         IF step.merged THEN vertices - 1 ELSE vertices,
                         sorted, i + 1) :
                   step \in {ContractStep(par, rnk, sorted[i])}})
    ELSE par

\* fixed: the parent array after the first j edges of sorted have been looked at
FixedPrefix(k, sorted, j) ==
    Only({FixedLoop(par, rnk, k, SubSeq(sorted, 1, j), 1) :
              par \in {Identity(k)}, rnk \in {[i \in Vertices(k) |-> 0]}})

\* minCutFixedPermutation(k, es) when the sort produces sorted
FixedRun(k, es, sorted) ==
    IF k <= 1 \/ es = <<>>
    THEN 0
    ELSE Only({FixedExtract(FixedLoop(par, rnk, k, sorted, 1), k, es).cut :
                   par \in {Identity(k)}, rnk \in {[i \in Vertices(k) |-> 0]}})

FixedOutcomes(k, es) == {FixedRun(k, es, sorted) : sorted \in SortedOrders(es)}

RECURSIVE DegreeLoop(_, _, _, _)
DegreeLoop(g, act, k, numActive) ==
    IF DegreeContinues(g, act, k, numActive)
    THEN Only({Only({DegreeLoop(c.adj, c.active, k, numActive - 1) :
                         c \in {contract_edge(g, act, best.u, best.v)}}) :
                   best \in {SelectBest(g, act, k)}})
    ELSE DegreeExtract(g, act, k, numActive)

deterministic_degree_biased_karger(k, es) ==
    IF k <= 1
    THEN 0
    ELSE Only({DegreeLoop(g, act, k, k) :
                   g \in {BuildAdj([i \in Vertices(k) |-> EmptyMap], es, 1)},
                   act \in {[i \in Vertices(k) |-> TRUE]}})

\* random: the loop state after one iteration that draws the edge e
DrawResult(par, rnk, sn, e) ==
    Only({[parent |-> step.parent, rank |-> step.rank,
           supernodes |-> IF step.merged THEN sn - 1 ELSE sn] :
              step \in {ContractStep(par, rnk, e)}})

\* random: the states one loop iteration can lead to that differ from the
\* state it starts in
DrawSuccessors(par, rnk, sn, es) ==
    {st \in {DrawResult(par, rnk, sn, es[i]) : i \in 1 .. Len(es)} :
        st.parent # par}

\* random: no draw merges anything any more, and the loop is still running
LoopStuck(par, rnk, sn, es) ==
    /\ sn > 2
    /\ \A i \in 1 .. Len(es) : ~ContractStep(par, rnk, es[i]).merged

\* random: the values the call can return from a loop state
RECURSIVE ReturnsFrom(_, _, _, _, _)
ReturnsFrom(par, rnk, sn, k, es) ==
    IF ~(sn > 2)
    THEN {RandomisedExtract(par, k, es).cut}
    ELSE UNION {ReturnsFrom(st.parent, st.rank, st.supernodes, k, es) :
                    st \in DrawSuccessors(par, rnk, sn, es)}

\* random: whether the call can reach a loop state it never leaves
RECURSIVE HangsFrom(_, _, _, _)
HangsFrom(par, rnk, sn, es) ==
    \/ LoopStuck(par, rnk, sn, es)
    \/ /\ sn > 2
       /\ \E st \in DrawSuccessors(par, rnk, sn, es) :
              HangsFrom(st.parent, st.rank, st.supernodes, es)

RandomReturns(k, es) ==
    IF k <= 1 \/ es = <<>>
    THEN {0}
    ELSE UNION {ReturnsFrom(par, rnk, k, k, es) :
                    par \in {Identity(k)}, rnk \in {[i \in Vertices(k) |-> 0]}}

RandomHangs(k, es) ==
    IF k <= 1 \/ es = <<>>
    THEN FALSE
    ELSE \E par \in {Identity(k)}, rnk \in {[i \in Vertices(k) |-> 0]} :
             HangsFrom(par, rnk, k, es)

(***************************************************************************)
(* Graph-theoretic reference notions, defined on the input alone.          *)
(***************************************************************************)
NoLoops(es) == SelectSeq(es, LAMBDA e : e[1] # e[2])

\* the number of edges of es with exactly one endpoint in S
CrossCount(es, S) ==
    Cardinality({j \in 1 .. Len(es) : (es[j][1] \in S) # (es[j][2] \in S)})

\* the two-sided partitions of the vertices, each named by the side holding 0
Sides(k) == {S \in SUBSET Vertices(k) : 0 \in S /\ S # Vertices(k)}

\* the global minimum cut of the input graph
MinCut(k, es) ==
    IF k < 2
    THEN 0
    ELSE LET S0 == CHOOSE S \in Sides(k) :
                       \A T \in Sides(k) : CrossCount(es, S) <= CrossCount(es, T)
         IN  CrossCount(es, S0)

\* the vertices reachable from the set R over the edges of es
RECURSIVE Closure(_, _)
Closure(es, R) ==
    LET more == {es[j][2] : j \in {i \in 1 .. Len(es) : es[i][1] \in R}}
                \cup {es[j][1] : j \in {i \in 1 .. Len(es) : es[i][2] \in R}}
    IN  IF more \subseteq R THEN R ELSE Closure(es, R \cup more)

\* the connected components of the input graph
Components(k, es) == {Closure(es, {x}) : x \in Vertices(k)}

Connected(k, es) == Cardinality(Components(k, es)) = 1

\* the root of x, read without changing the array
RECURSIVE Root(_, _)
Root(par, x) == IF par[x] = x THEN x ELSE Root(par, par[x])

\* the partition of the vertices a parent array represents
PartitionOf(par) ==
    {{y \in DOMAIN par : Root(par, y) = Root(par, x)} : x \in DOMAIN par}

\* the edge lists got from es by exchanging two neighbouring edges: with es
\* itself they generate every arrangement of the same multiset
AdjacentSwaps(es) ==
    {[j \in 1 .. Len(es) |-> IF j = i THEN es[i + 1]
                              ELSE IF j = i + 1 THEN es[i] ELSE es[j]] :
        i \in 1 .. Len(es) - 1}

\* the supernodes of the current state, as sets of original vertices
Supernodes ==
    IF strategy = "degree"
    THEN {{y \in DOMAIN group : group[y] = group[x]} : x \in DOMAIN group}
    ELSE {{y \in DOMAIN parent : Root(parent, y) = Root(parent, x)} : x \in DOMAIN parent}

(***************************************************************************)
(* Properties.                                                             *)
(***************************************************************************)
Returned == pc = "done"

\* C1: on the graph "two triangles joined by one bridge" (n = 6),
\* minCutFixedPermutation returns the cut value 1.
C1_FixedTwoTrianglesIsOne ==
    (/\ Returned
     /\ strategy = "fixed"
     /\ n = TwoTrianglesBridge.n
     /\ edges = TwoTrianglesBridge.edges) => result = 1

\* C2: on each of the 20 graphs of the run_tests table the degree-biased
\* strategy returns exactly the expected value of the table.
C2_TableExpected ==
    \A t \in 1 .. Len(run_tests) :
        (/\ Returned
         /\ strategy = "degree"
         /\ n = run_tests[t].n
         /\ edges = run_tests[t].edges) => result = run_tests[t].expected

\* C2 witness: the 8-vertex "Dual-path bottleneck" graph has been contracted
\* six times and returned its expected value 2.
C2_Witness ==
    /\ Returned
    /\ strategy = "degree"
    /\ n = 8
    /\ edges = run_tests[16].edges
    /\ contractions = 6
    /\ result = 2

\* C3: for every multigraph with n >= 2 the value the degree-biased strategy
\* returns is the global minimum cut of the input.
C3_DegreeIsMinCut ==
    (Returned /\ strategy = "degree" /\ n >= 2) => result = MinCut(n, edges)

\* C4: whenever minCutRandomised returns, the value is at least the global
\* minimum cut of the input, whatever edge indices were drawn.
C4_RandomNotBelowMinCut ==
    (Returned /\ strategy = "random") => result >= MinCut(n, edges)

\* C4 witness: a random run has contracted and returned a cut strictly larger
\* than the minimum cut.
C4_Witness ==
    /\ Returned
    /\ strategy = "random"
    /\ contractions >= 1
    /\ result > MinCut(n, edges)
    /\ MinCut(n, edges) >= 1

\* C5: on an input with more than two connected components every strategy
\* finishes and returns 0.
C5_ExhaustedReturnsZero ==
    (pc = "start" /\ Cardinality(Components(n, edges)) > 2)
        ~> (Returned /\ result = 0)

\* C6: every call terminates, and on a connected input with n >= 2 it does so
\* after exactly n - 2 successful contractions with exactly two supernodes.
C6_TerminatesAfterNMinus2 ==
    /\ <>Returned
    /\ [](  (Returned /\ n >= 2 /\ Connected(n, edges))
         => (contractions = n - 2 /\ Cardinality(Supernodes) = 2))

\* the inputs that edges is obtained from by appending self-loops only
Bases(es) ==
    {SubSeq(es, 1, j) : j \in {i \in 0 .. Len(es) :
                                  \A l \in i + 1 .. Len(es) : es[l][1] = es[l][2]}}

\* C7: self-loops never change the outcome: if edges is some input base with
\* self-loops appended, what a call on edges does is what a call on base can
\* do (same returned value for the deterministic strategies; for the random
\* strategy a value the call on base can return, and a contraction loop that
\* never ends only if the call on base has one).
C7_SelfLoopsIrrelevant ==
    \A base \in Bases(edges) :
        /\ (Returned /\ strategy = "fixed") => result \in FixedOutcomes(n, base)
        /\ (Returned /\ strategy = "degree")
               => result = deterministic_degree_biased_karger(n, base)
        /\ (Returned /\ strategy = "random") => result \in RandomReturns(n, base)
        /\ (pc = "loop" /\ strategy = "random"
                /\ LoopStuck(parent, rank, supernodes, edges))
               => RandomHangs(n, base)

\* the input is k >= 1 parallel edges between 0 and 1, in either orientation
ParallelPair == \A j \in 1 .. Len(edges) : edges[j] \in {<<0, 1>>, <<1, 0>>}

\* C8: for n = 2 and k >= 1 parallel edges between 0 and 1 every strategy
\* returns exactly k.
C8_ParallelEdgesCount ==
    (Returned /\ n = 2 /\ Len(edges) >= 1 /\ ParallelPair) => result = Len(edges)

\* C8 witness: three parallel edges in both orientations, returned as 3.
C8_Witness ==
    /\ Returned
    /\ n = 2
    /\ edges = <<(<<0, 1>>), (<<1, 0>>), (<<0, 1>>)>>
    /\ result = 3

\* C9: the returned value c satisfies 0 <= c <= number of input edges, and
\* c <= the number of non-self-loop input edges leaving S for every supernode
\* S that survives at termination.
C9_CutBounds ==
    Returned =>
        /\ 0 <= result
        /\ result <= Len(edges)
        /\ \A S \in Supernodes : result <= CrossCount(edges, S)

\* C9 witness: a call that contracted, ended with exactly two supernodes and
\* returned a positive cut smaller than the number of input edges.
C9_Witness ==
    /\ Returned
    /\ contractions >= 1
    /\ Cardinality(Supernodes) = 2
    /\ result >= 1
    /\ result < Len(edges)

\* C11: the fixed-order and the degree-biased strategy are functions of
\* (n, edge multiset).  In every loop state of the degree-biased strategy
\* every iteration order of the adjacency maps selects the same pair, gives
\* the same contracted graph and the same bridge answers; in every loop state
\* of the fixed-order strategy every outcome of the sort has produced the same
\* partition; and the value returned is the value for every outcome of the
\* sort and for every rearrangement of the edge list.
C11_PureFunctions ==
    /\ (pc = "loop" /\ strategy = "degree" /\ supernodes > 2) =>
           /\ SelectOutcomes(adj, active, n) = {SelectBest(adj, active, n)}
           /\ \A b \in SelectOutcomes(adj, active, n) :
                  b.u # None =>
                      ContractOutcomes(adj, active, b.u, b.v)
                          = {contract_edge(adj, active, b.u, b.v)}
           /\ \A c \in Candidates(adj, active, n) :
                  CutEdgeOutcomes(adj, c[1], c[2], active)
                      = {is_cut_edge(adj, c[1], c[2], active)}
    /\ (pc = "loop" /\ strategy = "fixed") =>
           \A sorted \in SortedOrders(edges) :
               PartitionOf(FixedPrefix(n, sorted, idx - 1)) = Supernodes
    /\ (Returned /\ strategy = "fixed") =>
           \A es \in {edges} \cup AdjacentSwaps(edges) :
               FixedOutcomes(n, es) = {result}
    /\ (Returned /\ strategy = "degree") =>
           \A es \in {edges} \cup AdjacentSwaps(edges) :
               deterministic_degree_biased_karger(n, es) = result

\* C11 witness: the degree-biased strategy has contracted once and is in a loop
\* state where some vertex has two candidate neighbours with equal score, so
\* that the iteration order could matter.
C11_Witness ==
    /\ pc = "loop"
    /\ strategy = "degree"
    /\ contractions >= 1
    /\ supernodes > 2
    /\ \E c1, c2 \in Candidates(adj, active, n) :
           /\ c1[1] = c2[1]
           /\ c1[2] # c2[2]
           /\ Score(adj, active, c1[1], c1[2]) = Score(adj, active, c2[1], c2[2])

\* C12: for n <= 1 every strategy returns 0 without entering its contraction
\* loop, contracting, or building any structure from the edges (the arrays,
\* the sorted copy and the adjacency are never set up); for an empty edge
\* list every strategy returns 0.
C12_TrivialInputs ==
    /\ n <= 1 =>
           /\ pc # "loop"
           /\ contractions = 0
           /\ parent = <<>> /\ rank = <<>>
           /\ sortedEdges = <<>> /\ idx = 0
           /\ adj = <<>> /\ active = <<>>
    /\ (Returned /\ n <= 1) => result = 0
    /\ (Returned /\ edges = <<>>) => result = 0

\* C12 witness: a call with n = 1 and a non-empty edge list has returned 0.
C12_Witness ==
    /\ Returned
    /\ n = 1
    /\ Len(edges) >= 2
    /\ result = 0

\* some edge of the input names a vertex outside 0 .. n-1
HasInvalidVertex == ~AllInRange(n, edges)

\* C13: on an input with an endpoint outside [0, n) a strategy neither uses
\* an out-of-range index nor returns a cut value: it ends in an error.
C13_InvalidVertexRejected ==
    HasInvalidVertex => (pc # "undefined" /\ ~Returned)


\* the supernodes the counter is supposed to count: the distinct union-find
\* roots, resp. the active flags that are set
ActualSupernodes ==
    IF strategy = "degree"
    THEN Cardinality({x \in DOMAIN active : active[x]})
    ELSE Cardinality({Root(parent, x) : x \in DOMAIN parent})

\* in a loop state the counter is the actual number of supernodes, and is at
\* least 2 when n >= 2
CounterIsExact ==
    pc = "loop" =>
        /\ supernodes = ActualSupernodes
        /\ supernodes = Cardinality(Supernodes)
        /\ n >= 2 => supernodes >= 2

\* the loop is entered with the counter at n; an iteration either merges two
\* distinct supernodes and decrements the counter by one, or leaves both the
\* partition and the counter as they were
CounterStep ==
    /\ (pc = "start" /\ pc' = "loop") => supernodes' = n
    /\ (pc = "loop" /\ pc' = "loop") =>
           \/ /\ supernodes' = supernodes - 1
              /\ \E A, B \in Supernodes :
                     /\ A # B
                     /\ Supernodes' = (Supernodes \ {A, B}) \cup {A \cup B}
           \/ /\ supernodes' = supernodes
              /\ Supernodes' = Supernodes

\* C14: in every state of a contraction loop the counter equals the number of
\* supernodes (distinct roots, resp. active flags) and is at least 2 when
\* n >= 2; it starts at n, drops by exactly one exactly when two distinct
\* supernodes are merged, and an edge inside one supernode changes neither
\* the counter nor the partition.
C14_SupernodeCount == []CounterIsExact /\ [][CounterStep]_vars

\* C14 witness: the fixed-order strategy, still in its loop, has merged at
\* least once and has also processed an edge that was a no-op.
C14_Witness ==
    /\ pc = "loop"
    /\ strategy = "fixed"
    /\ contractions >= 1
    /\ idx - 1 > contractions
    /\ supernodes = n - contractions


\* the j-th ancestor of x: x after following j parent pointers
RECURSIVE Ancestor(_, _, _)
Ancestor(par, x, j) == IF j = 0 THEN x ELSE Ancestor(par, par[x], j - 1)

\* the parent pointers have no cycle but the self-loops of the roots: from
\* every x, as many steps as there are elements end at a fixed point
IsForest(par) ==
    /\ \A x \in DOMAIN par : par[x] \in DOMAIN par
    /\ \A x \in DOMAIN par :
           LET r == Ancestor(par, x, Cardinality(DOMAIN par))
           IN  par[r] = r

\* the root of every element, as an array
Roots(par) == [y \in DOMAIN par |-> Root(par, y)]

\* what a find (the array f.parent after it and the value f.root returned)
\* owes the array it was called on, whose roots are given, for the element
\* x: every element keeps its root, so "same root" is the same relation
FindIsSound(roots, x, f) ==
    /\ f.root = roots[x]
    /\ f.parent[f.root] = f.root
    /\ IsForest(f.parent)
    /\ Roots(f.parent) = roots

\* C15: after any sequence of findParent and unionSets calls from
\* parent[i] = i the parent pointers form a forest, and each version of
\* findParent, called on any x, returns the root of x (a fixed point of
\* parent) and leaves the relation "same root" as it was.
C15_UnionFindForest ==
    /\ IsForest(parent)
    /\ \E roots \in {Roots(parent)} :
           \A x \in Vertices(n) :
               /\ \E f \in {findParent(parent, x)} : FindIsSound(roots, x, f)
               /\ \E f \in {findParentRecursive(parent, x)} :
                      FindIsSound(roots, x, f)

\* C15 witness: after unions and finds some x lies two levels below its
\* root, so that findParent(x) rewrites a pointer, and both versions of the
\* function rewrite the array differently.
C15_Witness ==
    /\ pc = "calls"
    /\ \E x \in Vertices(n) :
           /\ parent[x] # x
           /\ parent[parent[x]] # parent[x]
           /\ findParent(parent, x).parent # parent
    /\ \E y \in Vertices(n) :
           findParent(parent, y).parent # findParentRecursive(parent, y).parent


\* what unionSets (the arrays r.parent, r.rank after it and the value
\* r.merged returned) owes the arrays it was called on, for the arguments
\* a, b: roots holds the roots before the call, rnk the ranks before it.
\* The groups are compared through their roots: every element outside the
\* groups of a and b keeps its root, every element inside them gets the
\* surviving root.
UnionIsSound(roots, rnk, a, b, r) ==
    LET ra == roots[a]
        rb == roots[b]
        survivor == IF rnk[ra] > rnk[rb] THEN ra
                    ELSE IF rnk[rb] > rnk[ra] THEN rb
                    ELSE Min2(ra, rb)
        attached == IF survivor = ra THEN rb ELSE ra
    IN  IF ra = rb
        THEN /\ r.merged = FALSE
             /\ Roots(r.parent) = roots
             /\ r.rank = rnk
        ELSE /\ r.merged = TRUE
             /\ r.parent[attached] = survivor
             /\ r.parent[survivor] = survivor
             /\ r.rank = IF rnk[ra] = rnk[rb]
                         THEN [rnk EXCEPT ![survivor] = @ + 1]
                         ELSE rnk
             /\ Roots(r.parent)
                    = [y \in DOMAIN roots |->
                          IF roots[y] \in {ra, rb} THEN survivor ELSE roots[y]]

\* C16: unionSets(a, b) on two elements of one group returns false and merges
\* nothing; otherwise it returns true, puts the root of lower rank under the
\* root of higher rank, on equal rank the higher-indexed root under the
\* lower-indexed one, whose rank then grows by exactly one; no other rank
\* changes, and exactly the groups of a and b are merged.
C16_UnionContract ==
    pc = "calls" =>
        \E roots \in {Roots(parent)} :
            \A a, b \in Vertices(n) :
                \E r \in {unionSets(parent, rank, a, b)} :
                    UnionIsSound(roots, rank, a, b, r)

\* C16 witness: unions have happened, and the state offers every case: two
\* elements of one group, two roots of equal positive rank given with the
\* higher-indexed one first, and two roots of different rank given with the
\* lower-ranked one second.
C16_Witness ==
    /\ pc = "calls"
    /\ supernodes < n
    /\ \E a, b \in Vertices(n) :
           a # b /\ Root(parent, a) = Root(parent, b)
    /\ \E a, b \in Vertices(n) :
           /\ Root(parent, a) > Root(parent, b)
           /\ rank[Root(parent, a)] = rank[Root(parent, b)]
           /\ rank[Root(parent, a)] >= 1
    /\ \E a, b \in Vertices(n) :
           rank[Root(parent, a)] > rank[Root(parent, b)]


\* the multigraph invariant for the adjacency g and the flags act
MultigraphInvariant(g, act) ==
    \A u \in DOMAIN g :
        /\ u \notin DOMAIN g[u]
        /\ \A w \in DOMAIN g[u] : g[u][w] \in Nat \ {0}
        /\ act[u] =>
               \A w \in DOMAIN g[u] :
                   /\ w \in DOMAIN g
                   /\ act[w]
                   /\ u \in DOMAIN g[w]
                   /\ g[w][u] = g[u][w]
        /\ ~act[u] => DOMAIN g[u] = {}

\* C17: after the adjacency build and after every contract_edge call of the
\* degree-biased strategy, adj is symmetric between active vertices, holds no
\* entry of a vertex for itself, holds positive multiplicities only, holds no
\* entry of an active vertex for an inactive one, and the map of every
\* inactive vertex is empty.
C17_MultigraphInvariant ==
    (strategy = "degree" /\ pc \in {"loop", "done"} /\ n >= 2) =>
        MultigraphInvariant(adj, active)

\* C17 witness: contract_edge has run, leaving an inactive vertex, and a
\* multiplicity of 2 or more is stored between two active vertices that the
\* input joined at most once.
C17_Witness ==
    /\ strategy = "degree"
    /\ pc = "loop"
    /\ contractions >= 1
    /\ \E v \in Vertices(n) : ~active[v]
    /\ \E u \in Vertices(n) :
           /\ active[u]
           /\ \E w \in DOMAIN adj[u] :
                  /\ adj[u][w] >= 2
                  /\ Cardinality({j \in 1 .. Len(edges) :
                                      {edges[j][1], edges[j][2]} = {u, w}}) <= 1


\* the multiplicity stored in the map m for the key k, 0 when there is none
Multiplicity(m, k) == IF k \in DOMAIN m THEN m[k] ELSE 0

\* what the graph c.adj and the flags c.active after contract_edge(u, v) owe
\* the graph g and the flags act before it
ContractEffect(g, act, u, v, c) ==
    /\ \A w \in (DOMAIN g) \ {u, v} :
           \E sum \in {Multiplicity(g[u], w) + Multiplicity(g[v], w)} :
               /\ (w \in DOMAIN c.adj[u]) = (sum > 0)
               /\ (u \in DOMAIN c.adj[w]) = (sum > 0)
               /\ Multiplicity(c.adj[u], w) = sum
               /\ Multiplicity(c.adj[w], u) = sum
    /\ c.active[v] = FALSE
    /\ c.adj[v] = EmptyMap
    /\ \A x \in DOMAIN g : v \notin DOMAIN c.adj[x]
    /\ u \notin DOMAIN c.adj[u]
    /\ \A x, y \in (DOMAIN g) \ {u, v} :
           /\ (y \in DOMAIN c.adj[x]) = (y \in DOMAIN g[x])
           /\ Multiplicity(c.adj[x], y) = Multiplicity(g[x], y)
    /\ \A x \in (DOMAIN act) \ {v} : c.active[x] = act[x]
    /\ DOMAIN c.adj = DOMAIN g
    /\ DOMAIN c.active = DOMAIN act

\* C18: in every state of the degree-biased loop, contract_edge(u, v) on any
\* active adjacent pair u < v, for every iteration order of adj[v], gives
\* every other vertex w the multiplicity adj[u][w] + adj[v][w] with u on both
\* sides (no entry when that is 0), leaves v inactive and without entries and
\* no entry for v or for u itself at u or anywhere, and changes no entry
\* between two other vertices and no other active flag.
C18_ContractEffect ==
    (strategy = "degree" /\ pc = "loop") =>
        \A uv \in Candidates(adj, active, n) :
            \A c \in ContractOutcomes(adj, active, uv[1], uv[2]) :
                ContractEffect(adj, active, uv[1], uv[2], c)

\* C18 witness: after a contraction the loop is in a state with more than
\* two supernodes and an active adjacent pair u < v with a common neighbour w
\* (two multiplicities are added up), v's multiplicity to w being 2 or more.
C18_Witness ==
    /\ strategy = "degree"
    /\ pc = "loop"
    /\ contractions >= 1
    /\ supernodes > 2
    /\ \E uv \in Candidates(adj, active, n) :
           \E w \in DOMAIN adj[uv[2]] :
               /\ w \in DOMAIN adj[uv[1]]
               /\ adj[uv[2]][w] >= 2


\* the vertices reachable from the set R over entries between active
\* vertices, the adjacency between u and v itself left out
RECURSIVE ReachableAvoiding(_, _, _, _, _)
ReachableAvoiding(g, act, u, v, R) ==
    LET more == {w \in DOMAIN g :
                    /\ act[w]
                    /\ \E x \in R : w \in DOMAIN g[x] /\ {x, w} # {u, v}}
    IN  IF more \subseteq R
        THEN R
        ELSE ReachableAvoiding(g, act, u, v, R \cup more)

\* C19: in every state of the degree-biased loop and for every active
\* adjacent pair u < v, is_cut_edge returns true exactly when v is not
\* reachable from u over active vertices without the adjacency between u and
\* v, whatever the iteration order of the maps (it returns a truth value and
\* nothing else: the graph is a const parameter); and the strategy scores the
\* pair as a bridge (score 1) exactly when its multiplicity is 1 and
\* is_cut_edge holds, a pair of multiplicity 2 or more keeping its degree
\* product.
C19_BridgeOracle ==
    (strategy = "degree" /\ pc = "loop") =>
        \A uv \in Candidates(adj, active, n) :
            \E cut \in {uv[2] \notin
                           ReachableAvoiding(adj, active, uv[1], uv[2], {uv[1]})} :
                /\ is_cut_edge(adj, uv[1], uv[2], active) = cut
                /\ CutEdgeOutcomes(adj, uv[1], uv[2], active) = {cut}
                /\ Score(adj, active, uv[1], uv[2])
                       = IF adj[uv[1]][uv[2]] = 1 /\ cut
                         THEN 1
                         ELSE compute_degree(adj, uv[1])
                                  * compute_degree(adj, uv[2])

\* C19 witness: after a contraction the loop is in a state with a pair of
\* multiplicity 2 or more for which is_cut_edge holds and whose score is its
\* degree product, and with a pair of multiplicity 1 for which it holds and
\* whose degree product is not 1.
C19_Witness ==
    /\ strategy = "degree"
    /\ pc = "loop"
    /\ contractions >= 1
    /\ \E uv \in Candidates(adj, active, n) :
           /\ adj[uv[1]][uv[2]] >= 2
           /\ is_cut_edge(adj, uv[1], uv[2], active)
           /\ Score(adj, active, uv[1], uv[2]) >= 4
    /\ \E uv \in Candidates(adj, active, n) :
           /\ adj[uv[1]][uv[2]] = 1
           /\ is_cut_edge(adj, uv[1], uv[2], active)
           /\ compute_degree(adj, uv[1]) * compute_degree(adj, uv[2]) > 1
           /\ Score(adj, active, uv[1], uv[2]) = 1


\* the candidate pairs that are not protected bridges
Unprotected(g, act, k) ==
    {uv \in Candidates(g, act, k) :
        ~(g[uv[1]][uv[2]] = 1 /\ is_cut_edge(g, uv[1], uv[2], act))}

DegreeProduct(g, uv) == compute_degree(g, uv[1]) * compute_degree(g, uv[2])

\* (u, v) before (u', v') in the lexicographic order, or the same pair
LexLeq(a, b) == a[1] < b[1] \/ (a[1] = b[1] /\ a[2] <= b[2])

\* the pair of P with the smallest degree product, the lexicographically
\* smallest of those that have it
MinProductPair(g, P) ==
    CHOOSE uv \in P :
        \A xy \in P :
            \/ DegreeProduct(g, uv) < DegreeProduct(g, xy)
            \/ DegreeProduct(g, uv) = DegreeProduct(g, xy) /\ LexLeq(uv, xy)

\* C20: whenever the degree-biased loop is about to contract and some
\* candidate pair is not a protected bridge, the pair it contracts is the
\* unprotected pair with the smallest degree(u) * degree(v), the
\* lexicographically smallest (u, v) among equals.
C20_SelectsMinimumProduct ==
    (strategy = "degree" /\ pc = "loop" /\ supernodes > 2
        /\ Unprotected(adj, active, n) # {}) =>
        \A best \in SelectOutcomes(adj, active, n) :
            <<best.u, best.v>> = MinProductPair(adj, Unprotected(adj, active, n))


\* the candidate pairs that are protected bridges: multiplicity exactly 1
\* and reported by is_cut_edge in the current graph
Protected(g, act, k) == Candidates(g, act, k) \ Unprotected(g, act, k)

\* C21: whenever the bridge-protecting strategy is about to contract a pair
\* of multiplicity 1 that is_cut_edge reports as a bridge of the current
\* graph, no candidate pair is a non-bridge: every remaining candidate is
\* such a bridge.
C21_BridgesDeferred ==
    (strategy = "degree" /\ pc = "loop" /\ supernodes > 2) =>
        \A best \in SelectOutcomes(adj, active, n) :
            (best.u # None /\ <<best.u, best.v>> \in Protected(adj, active, n))
                => Unprotected(adj, active, n) = {}

\* C21 witness: the input had a pair joined twice next to pairs joined once;
\* contractions have happened, more than two supernodes are left, and every
\* remaining candidate is a protected bridge, so that one is contracted now.
C21_Witness ==
    /\ strategy = "degree"
    /\ pc = "loop"
    /\ contractions >= 1
    /\ supernodes > 2
    /\ \E i, j \in 1 .. Len(edges) : i # j /\ edges[i] = edges[j]
    /\ Unprotected(adj, active, n) = {}
    /\ \E best \in SelectOutcomes(adj, active, n) :
           <<best.u, best.v>> \in Protected(adj, active, n)


\* the smallest element of a non-empty set of integers
Smallest(S) == CHOOSE x \in S : \A y \in S : x <= y

\* C22: the degree-biased strategy calls contract_edge with u < v only (the
\* larger-indexed vertex is merged into the smaller-indexed one); so in every
\* state each supernode has exactly one active vertex, the smallest vertex of
\* the supernode, and vertex 0 is active.
C22_SmallestRepresents ==
    (strategy = "degree" /\ pc \in {"loop", "done"} /\ n >= 2) =>
        /\ (pc = "loop" /\ supernodes > 2) =>
               \A best \in SelectOutcomes(adj, active, n) :
                   best.u # None =>
                       /\ best.u < best.v
                       /\ active[best.u] /\ active[best.v]
        /\ \A S \in Supernodes :
               {x \in S : active[x]} = {Smallest(S)}
        /\ \A x \in Vertices(n) : active[group[x]] /\ group[x] = Smallest(
               {y \in Vertices(n) : group[y] = group[x]})
        /\ active[0]

\* C22 witness: after two contractions some supernode of three or more
\* vertices that does not hold vertex 0 is represented by its smallest vertex.
C22_Witness ==
    /\ strategy = "degree"
    /\ pc = "loop"
    /\ contractions >= 2
    /\ \E S \in Supernodes :
           /\ Cardinality(S) >= 3
           /\ 0 \notin S
           /\ active[Smallest(S)]


\* the canonical pair (min(u,v), max(u,v)) of an edge
Canonical(e) == <<Min2(e[1], e[2]), Max2(e[1], e[2])>>

\* es is in ascending (non-decreasing) order of the canonical pair
CanonicallySorted(es) ==
    \A i, j \in 1 .. Len(es) :
        i < j => LexLeq(Canonical(es[i]), Canonical(es[j]))

\* how often the value e occurs in es
Occurrences(es, e) == Cardinality({j \in 1 .. Len(es) : es[j] = e})

\* the edge lists got from es by exchanging the endpoints of one edge
EndpointSwaps(es) ==
    {[es EXCEPT ![i] = <<es[i][2], es[i][1]>>] : i \in 1 .. Len(es)}

\* in the loop of the fixed-order strategy sortedEdges is the input in
\* ascending canonical order; the value returned is the value for every
\* outcome of the sort, for the list with two neighbouring edges exchanged
\* and for the list with one edge's endpoints exchanged
FixedOrderState ==
    /\ (strategy = "fixed" /\ pc = "loop") =>
           /\ CanonicallySorted(sortedEdges)
           /\ Len(sortedEdges) = Len(edges)
           /\ \A j \in 1 .. Len(edges) :
                  Occurrences(sortedEdges, edges[j]) = Occurrences(edges, edges[j])
           /\ idx \in 1 .. Len(edges) + 1
    /\ (strategy = "fixed" /\ Returned) =>
           \A es \in {edges} \cup AdjacentSwaps(edges) \cup EndpointSwaps(edges) :
               FixedOutcomes(n, es) = {result}

\* one iteration looks at the next edge of sortedEdges; it is skipped (nothing
\* merges) exactly when its endpoints share a supernode, and otherwise the
\* supernodes of its two endpoints are merged
FixedOrderStep ==
    (strategy = "fixed" /\ pc = "loop" /\ pc' = "loop") =>
        /\ idx' = idx + 1
        /\ sortedEdges' = sortedEdges
        /\ \E e \in {sortedEdges[idx]} :
           \E A \in {{y \in DOMAIN parent : Root(parent, y) = Root(parent, e[1])}},
              B \in {{y \in DOMAIN parent : Root(parent, y) = Root(parent, e[2])}} :
               IF A = B
               THEN Supernodes' = Supernodes /\ contractions' = contractions
               ELSE /\ Supernodes' = (Supernodes \ {A, B}) \cup {A \cup B}
                    /\ contractions' = contractions + 1

\* C23: the fixed-order strategy looks at the edges in ascending order of
\* (min(u,v), max(u,v)), one after the other, so its contractions happen in
\* non-decreasing canonical order; an edge is skipped exactly when its
\* endpoints already share a supernode; and the value returned is the same
\* for every permutation of the edge list and every exchange of an edge's
\* endpoints.
C23_FixedOrder == []FixedOrderState /\ [][FixedOrderStep]_vars

\* C23 witness: the fixed-order strategy has returned after two contractions
\* and a skipped edge, on an input that was not in canonical order and names
\* some edge with its larger endpoint first.
C23_Witness ==
    /\ strategy = "fixed"
    /\ Returned
    /\ contractions >= 2
    /\ idx - 1 > contractions
    /\ ~CanonicallySorted(edges)
    /\ \E j \in 1 .. Len(edges) : edges[j][1] > edges[j][2]


\* the positions of the input edges whose endpoints lie in different
\* supernodes of the current state
CrossingEdges ==
    {j \in 1 .. Len(edges) :
        Root(parent, edges[j][1]) # Root(parent, edges[j][2])}

\* C24: when the random or the fixed-order strategy has left its loop with
\* exactly two supernodes, the value it returns is the number of input edges,
\* each occurrence counted, with endpoints in different supernodes; an edge
\* inside one supernode, a self-loop in particular, is not counted.
C24_CutExtraction ==
    (Returned /\ strategy \in {"random", "fixed"} /\ parent # <<>>
        /\ Cardinality(Supernodes) = 2) =>
        /\ supernodes = 2
        /\ result = Cardinality(CrossingEdges)

\* C24 witness: the fixed-order strategy has returned with two supernodes,
\* vertices 0 and 1 in the same one; the input has a self-loop, an edge that
\* ended inside a supernode, and a crossing pair that occurs twice.
C24_Witness ==
    /\ Returned
    /\ strategy = "fixed"
    /\ parent # <<>>
    /\ Cardinality(Supernodes) = 2
    /\ Root(parent, 0) = Root(parent, 1)
    /\ \E j \in 1 .. Len(edges) : edges[j][1] = edges[j][2]
    /\ \E j \in 1 .. Len(edges) :
           edges[j][1] # edges[j][2] /\ j \notin CrossingEdges
    /\ \E i, j \in CrossingEdges : i # j /\ Canonical(edges[i]) = Canonical(edges[j])
    /\ result >= 2


\* the number of input edges, self-loops left out, with one endpoint in the
\* supernode represented by u and the other in the one represented by v
EdgesBetween(u, v) ==
    Cardinality({j \in 1 .. Len(edges) :
                    /\ edges[j][1] # edges[j][2]
                    /\ {group[edges[j][1]], group[edges[j][2]]} = {u, v}})

\* C25: in every state of the degree-biased strategy and for all active
\* u # v, adj[u][v] is the number of non-self-loop input edges between the
\* supernodes that u and v represent, with no entry when that number is 0;
\* and the value returned is that number for the first two surviving
\* vertices, which is what a scan of the input edges against the final
\* supernodes counts.
C25_AdjacencyRefinesEdges ==
    (strategy = "degree" /\ pc \in {"loop", "done"} /\ n >= 2) =>
        /\ \A u, v \in Vertices(n) :
               (active[u] /\ active[v] /\ u # v) =>
                   /\ Multiplicity(adj[u], v) = EdgesBetween(u, v)
                   /\ (v \in DOMAIN adj[u]) = (EdgesBetween(u, v) > 0)
        /\ Returned =>
               \E rem \in {Remaining(active, n)} :
                   /\ Len(rem) = supernodes
                   /\ result = EdgesBetween(rem[1], rem[2])
                   /\ Len(rem) = 2 =>
                          result = Cardinality(
                              {j \in 1 .. Len(edges) :
                                  group[edges[j][1]] # group[edges[j][2]]})

\* C25 witness: the strategy has contracted and returned a value of 2 or
\* more on an input with a self-loop, the two surviving vertices being joined
\* by fewer input edges than the value returned.
C25_Witness ==
    /\ strategy = "degree"
    /\ Returned
    /\ contractions >= 1
    /\ result >= 2
    /\ \E j \in 1 .. Len(edges) : edges[j][1] = edges[j][2]
    /\ \E rem \in {Remaining(active, n)} :
           Cardinality({j \in 1 .. Len(edges) :
                           {edges[j][1], edges[j][2]} = {rem[1], rem[2]}}) < result

=============================================================================
